---------------------------- MODULE Spec2Model ----------------------------
(***************************************************************************)
(* Model of the sensor-fusion core of mipSIE's AltIMU-10v5 driver          *)
(* (src/python/AltIMU-10v5/altimu.py on top of lsm6ds33.py).               *)
(*                                                                         *)
(* Numbers.  The code computes in IEEE doubles.  The model computes in     *)
(* decimal fixed point: a number v is the integer v * Scale, sums and      *)
(* differences are exact, products and quotients are rounded to the        *)
(* nearest multiple of 1/Scale.  0.05 is 50000, 0.0175 is 17500.           *)
(*                                                                         *)
(* Absence.  Python's None is the empty tuple <<>>, a present value v is   *)
(* the one-element tuple <<v>>.                                            *)
(***************************************************************************)
EXTENDS Integers, Sequences, FiniteSets, TLC

Scale == 10^6
Kilo  == 10^3

None      == <<>>
Some(v)   == <<v>>
IsNone(o) == o = <<>>
Val(o)    == o[1]

(* The element of a one-element set: The({e(v) : v \in {d}}) is e(d), *)
(* with d evaluated once.                                             *)
The(S) == CHOOSE v \in S : TRUE

Abs(a) == IF a < 0 THEN -a ELSE a
Sgn(a) == IF a < 0 THEN -1 ELSE 1

(* |a| * |b| / Scale, rounded to nearest, without leaving 32 bits. *)
MulMag(a, b) ==
    LET a1 == a \div Kilo
        a0 == a % Kilo
        b1 == b \div Kilo
        b0 == b % Kilo
        m  == a1 * b0 + a0 * b1
        fr == (m % Kilo) * Kilo + a0 * b0
    IN  a1 * b1 + (m \div Kilo) + ((fr + Scale \div 2) \div Scale)

(* The float product a * b. *)
FMul(a, b) == Sgn(a) * Sgn(b) * MulMag(Abs(a), Abs(b))

(* |a| / |b| (b # 0), rounded to nearest, by long division: the integer *)
(* part, then six decimals two at a time.                               *)
DivMag(a, b) ==
    LET q0 == a \div b
        n1 == (a % b) * 100
        q1 == n1 \div b
        n2 == (n1 % b) * 100
        q2 == n2 \div b
        n3 == (n2 % b) * 100
        q3 == n3 \div b
        r3 == n3 % b
    IN  q0 * Scale + q1 * 10000 + q2 * 100 + q3 + (IF 2 * r3 >= b THEN 1 ELSE 0)

(* The float quotient a / b, b # 0. *)
FDiv(a, b) == Sgn(a) * Sgn(b) * DivMag(Abs(a), Abs(b))

(* An integer as a float. *)
FromInt(n) == n * Scale

---------------------------------------------------------------------------
(* Class constants of AltIMU. *)
GYRO_GAIN      == 17500       \* 0.0175
C_FILTER_CONST == 980000      \* 0.98
Q_ANGLE        == 10000       \* 0.01
Q_GYRO         == 300         \* 0.0003
R_ANGLE        == 10000       \* 0.01

---------------------------------------------------------------------------
(* Bounds of the model and the inputs the environment may supply. *)
MaxFusionCalls == 2      \* fusion calls that change the state

Axes == 1..3             \* x, y, z

(* Requested axes (x, y, z) of a call: all of them, or all but y. *)
AxisRequests == { <<TRUE, TRUE, TRUE>>, <<TRUE, FALSE, TRUE>> }

(* What the bus delivers during one call: the contents of the gyroscope   *)
(* output registers xl, xh, yl, yh, zl, zh, those of the accelerometer    *)
(* output registers, and whether the bus read raises IOError instead.     *)
Frame(gyro, accel, ioFail) == [gyro |-> gyro, accel |-> accel, ioFail |-> ioFail]

Frames ==
    { \* gyroscope raw (400, 0, -400), accelerometer raw (0, 0, 1000)
      Frame(<<144, 1, 0, 0, 112, 254>>, <<0, 0, 0, 0, 232, 3>>, FALSE),
      \* gyroscope raw (0, 0, 0), accelerometer raw (1000, -1000, 0)
      Frame(<<0, 0, 0, 0, 0, 0>>, <<232, 3, 24, 252, 0, 0>>, FALSE),
      Frame(<<0, 0, 0, 0, 0, 0>>, <<0, 0, 0, 0, 232, 3>>, TRUE) }

(* What the bus delivers when the user calls getGyroRotationRates or     *)
(* getAccelerometerAngles.                                               *)
ReadFrames ==
    { Frame(<<144, 1, 0, 0, 112, 254>>, <<0, 0, 0, 0, 232, 3>>, FALSE),
      Frame(<<0, 0, 0, 0, 0, 0>>, <<0, 0, 0, 0, 232, 3>>, TRUE) }

(* Arguments of LSM6DS33.enable: accelerometer, gyro, autoIncrementRegisters *)
SensorEnableArgs == { <<TRUE, TRUE, TRUE>>, <<TRUE, TRUE, FALSE>> }

(* Elapsed times passed to getKalmanAngles: 0.05 (its default) and 1.0. *)
DeltaTs == { 50000, 1000000 }

(* Elapsed time passed to getComplementaryAngles: 0.05 (its default). *)
ComplementaryDeltaTs == { 50000 }

(* Elapsed times passed to trackGyroAngles: 0.0002 (its default), 0.05. *)
TrackDeltaTs == { 200, 50000 }

(* Calibration seeds passed to calibrateGyroAngles: the default and one other. *)
CalSeeds == { <<0, 0, 0>>, <<1000000, 0, -2000000>> }

(* Arguments of AltIMU.enable: accelerometer, barometer, gyroscope,        *)
(* magnetometer, temperature, autoIncrementRegisters, initFiltersFromAccel *)
EnableArg(a, b, g, m, t, i, f) ==
    [accelerometer |-> a, barometer |-> b, gyroscope |-> g, magnetometer |-> m,
     temperature |-> t, autoIncrementRegisters |-> i, initFiltersFromAccel |-> f]

EnableArgs ==
    { EnableArg(TRUE, TRUE, TRUE, TRUE, TRUE, TRUE, TRUE),       \* the defaults
      EnableArg(TRUE, TRUE, TRUE, TRUE, TRUE, TRUE, FALSE),
      EnableArg(FALSE, FALSE, TRUE, FALSE, FALSE, TRUE, TRUE) }

---------------------------------------------------------------------------
(* LSM6DS33, the accelerometer/gyroscope device (lsm6ds33.py). *)

(* What a method call gives: it returns v (st = "ok") or raises st. *)
Ret(v)     == [st |-> "ok", v |-> v]
Raise(exc) == [st |-> exc, v |-> None]

(* LSM6DS33.__init__ *)
NewSensor ==
    [autoIncrementRegisters |-> FALSE, ready |-> FALSE,
     accEnabled |-> FALSE, gyroEnabled |-> FALSE]

(* LSM6DS33.enable(accelerometer, gyro, autoIncrementRegisters) *)
SensorEnabled(accelerometer, gyro, autoIncrementRegisters) ==
    [autoIncrementRegisters |-> autoIncrementRegisters, ready |-> TRUE,
     accEnabled |-> accelerometer, gyroEnabled |-> gyro]

(* LSM6DS33._combineLoHi *)
CombineLoHi(loByte, hiByte) ==
    LET combined == loByte + hiByte * 256
    IN  IF combined < 32768 THEN combined ELSE combined - 65536

(* LSM6DS33._getIMUSensorRaw on the registers' contents `block`; ioFail:  *)
(* the bus read raises IOError.                                           *)
GetIMUSensorRaw(sensor, x, y, z, block, ioFail) ==
    IF sensor.autoIncrementRegisters
    THEN IF ~x /\ ~y /\ ~z
         THEN Ret(<<None, None, None>>)
         ELSE IF ioFail
              THEN Raise("IOError")
              ELSE Ret(<< IF x THEN Some(CombineLoHi(block[1], block[2])) ELSE None,
                          IF y THEN Some(CombineLoHi(block[3], block[4])) ELSE None,
                          IF z THEN Some(CombineLoHi(block[5], block[6])) ELSE None >>)
    ELSE IF (x \/ y \/ z) /\ ioFail
         THEN Raise("IOError")
         ELSE Raise("NameError")     \* return (xval, yval, zval): xval is not defined

(* LSM6DS33.getAccelerometerRaw *)
GetAccelerometerRaw(sensor, x, y, z, block, ioFail) ==
    IF ~sensor.accEnabled
    THEN Raise("Exception: Accelerometer has to be enabled first")
    ELSE GetIMUSensorRaw(sensor, x, y, z, block, ioFail)

(* LSM6DS33.getGyroscopeRaw *)
GetGyroscopeRaw(sensor, x, y, z, block, ioFail) ==
    IF ~sensor.gyroEnabled
    THEN Raise("Exception: Gyroscope has to be enabled first")
    ELSE GetIMUSensorRaw(sensor, x, y, z, block, ioFail)

---------------------------------------------------------------------------
(* AltIMU (altimu.py): the state of one instance. *)
VARIABLES
    accelerometer, barometer, gyroscope, magnetometer, temperature,
    initFiltersFromAccel,   \* "unset" until enable sets the attribute
    accelGyroSensor,        \* None or Some(the LSM6DS33 object)
    gyrAngles,              \* [] (<<>>) or the three tracked angles
    kalmanBias,             \* three numbers
    listObjs,               \* the list objects the kalman?P names refer to
    kalmanAngles,           \* three optional numbers
    complementaryAngles,    \* three optional numbers
    call,                   \* the last call: its arguments and its outcome
    kalTrace,               \* the _calculateKalmanAngle runs of the last call
    kalmanSeeded, complementarySeeded,   \* how often each filter was seeded
    kalmanCalls,            \* getKalmanAngles calls that reached the seeding point
    complementaryCalls,     \* getComplementaryAngles calls that reached it
    configured,             \* the initFiltersFromAccel the last enable stored
    fusionCalls,            \* fusion calls that got past their sensor readings
    kalmanDeltaTs           \* the deltaT values of the _calculateKalmanAngle runs so far

(* The two scripts of src/python3 that are modelled: the globals of each. *)
VARIABLES
    balancer,               \* AltIMU_test.py: Ivalue, lastFusionRollX, the last PID term
    stepper                 \* pbrStepper.py: step, and where MoveStep stands

scriptVars == << balancer, stepper >>

vars ==
    << accelerometer, barometer, gyroscope, magnetometer, temperature,
       initFiltersFromAccel, accelGyroSensor, gyrAngles, kalmanBias, listObjs,
       kalmanAngles, complementaryAngles, call, kalTrace,
       kalmanSeeded, complementarySeeded, kalmanCalls, complementaryCalls,
       configured, fusionCalls, kalmanDeltaTs, balancer, stepper >>

(* AltIMU_test.py, lines 45-46: the globals before the loop; nothing has  *)
(* been computed yet.                                                     *)
BalancerStart ==
    [Ivalue |-> 0, lastFusionRollX |-> 0, fusionRollX |-> None, Pvalue |-> None,
     Dvalue |-> None, summed |-> None, PID |-> None, motorPWM |-> None]

(* pbrStepper.py, line 33: step = -1, MoveStep not called yet.  pc is     *)
(* "main" in the main loop and "loop" inside the while loop of MoveStep;  *)
(* arg is the argument of the last call, before the step at its start,    *)
(* iterations the loop iterations it has made; prevArg and prevBefore are *)
(* arg and before of the call before it.                                  *)
StepperStart ==
    [step |-> -1, pc |-> "main", count |-> 0, dir |-> 1, drive |-> None,
     arg |-> None, before |-> None, iterations |-> 0,
     prevArg |-> None, prevBefore |-> None, moved |-> FALSE]

(* Neither script has run. *)
ScriptsNotRun == balancer = BalancerStart /\ stepper = StepperStart

(* self.kalmanXP = self.kalmanYP = self.kalmanZP = [0.0, 0.0, 0.0, 0.0]:   *)
(* one list object, number 1, and three names for it.                     *)
kalmanXP == 1
kalmanYP == 1
kalmanZP == 1

(* The list an axis's covariance name refers to, and its contents. *)
KalmanRef(axis) ==
    CASE axis = 1 -> kalmanXP [] axis = 2 -> kalmanYP [] axis = 3 -> kalmanZP
KalmanP(axis) == listObjs[KalmanRef(axis)]

NoCall == [op |-> "__init__", x |-> TRUE, y |-> TRUE, z |-> TRUE, deltaT |-> 0,
           seed |-> None, raw |-> None, rates |-> None, accel |-> None,
           st |-> "ok", v |-> None]

(* The record of a call: its name, the axes it requested, the elapsed     *)
(* time it applied (0 when it applied none), and what it returned (v) or *)
(* raised (st).  seed: the arguments of calibrateGyroAngles; raw: the raw *)
(* vector the LSM6DS33 gave; rates and accel: the rotation rates and the  *)
(* accelerometer angles the call got.  Each is None where it does not     *)
(* apply.                                                                 *)
Observed(op, x, y, z, deltaT, seed, raw, rates, accel, r) ==
    [op |-> op, x |-> x, y |-> y, z |-> z, deltaT |-> deltaT,
     seed |-> seed, raw |-> raw, rates |-> rates, accel |-> accel,
     st |-> r.st, v |-> r.v]

Called(op, x, y, z, deltaT, r) ==
    Observed(op, x, y, z, deltaT, None, None, None, None, r)

(* The record of a filter call that got the rotation rates and the        *)
(* accelerometer angles `rates` and `accel` from its two readings.        *)
Filtered(op, x, y, z, deltaT, rates, accel, r) ==
    Observed(op, x, y, z, deltaT, None, None, rates, accel, r)

(* AltIMU.__init__ *)
Init ==
    /\ accelerometer = FALSE /\ barometer = FALSE /\ gyroscope = FALSE
    /\ magnetometer = FALSE /\ temperature = FALSE
    /\ initFiltersFromAccel = "unset"
    /\ accelGyroSensor = None
    /\ gyrAngles = <<>>
    /\ kalmanBias = <<0, 0, 0>>
    /\ listObjs = (kalmanXP :> <<0, 0, 0, 0>>) @@ (kalmanYP :> <<0, 0, 0, 0>>)
                    @@ (kalmanZP :> <<0, 0, 0, 0>>)
    /\ kalmanAngles = <<Some(0), Some(0), Some(0)>>
    /\ complementaryAngles = <<Some(0), Some(0), Some(0)>>
    /\ call = NoCall
    /\ kalTrace = <<>>
    /\ kalmanSeeded = 0 /\ complementarySeeded = 0
    /\ kalmanCalls = 0 /\ complementaryCalls = 0
    /\ configured = "unset"
    /\ fusionCalls = 0
    /\ kalmanDeltaTs = {}
    /\ ScriptsNotRun

(* What AltIMU.enable leaves behind, for the flags after lines 115-124:   *)
(* the LSM6DS33, LPS25H and LIS3MDL enable calls are made with keyword    *)
(* arguments, and the first two name parameters the callee does not have  *)
(* (gyroscope, temperature; barometer), which raises TypeError.           *)
EnableOutcome(acc, baro, gyro, mag, temp) ==
    IF acc \/ gyro THEN "TypeError"
    ELSE IF baro \/ temp THEN "TypeError"
    ELSE "ok"

(* AltIMU.enable *)
Enable(arg) ==
    LET acc  == accelerometer \/ arg.accelerometer
        baro == barometer \/ arg.barometer
        gyro == gyroscope \/ arg.gyroscope
        mag  == magnetometer \/ arg.magnetometer
        temp == temperature \/ arg.temperature
        st   == EnableOutcome(acc, baro, gyro, mag, temp)
    IN  /\ accelerometer' = acc /\ barometer' = baro /\ gyroscope' = gyro
        /\ magnetometer' = mag /\ temperature' = temp
        /\ accelGyroSensor' = IF acc \/ gyro THEN Some(NewSensor) ELSE accelGyroSensor
        /\ initFiltersFromAccel' =
              IF st = "ok" /\ ~acc THEN "False"
              ELSE IF arg.initFiltersFromAccel THEN "True" ELSE "False"
        /\ configured' = initFiltersFromAccel'
        /\ call' = Called("enable", TRUE, TRUE, TRUE, 0, [st |-> st, v |-> None])
        /\ kalTrace' = <<>>
        /\ UNCHANGED << scriptVars, gyrAngles, kalmanBias, listObjs, kalmanAngles,
                        complementaryAngles, kalmanSeeded, complementarySeeded,
                        kalmanCalls, complementaryCalls, fusionCalls,
                        kalmanDeltaTs >>

(* imu.accelGyroSensor.enable(...), called on the device object directly. *)
SensorEnable(acc, gyro, autoInc) ==
    /\ ~IsNone(accelGyroSensor)
    /\ accelGyroSensor' = Some(SensorEnabled(acc, gyro, autoInc))
    /\ call' = Called("accelGyroSensor.enable", TRUE, TRUE, TRUE, 0, Ret(None))
    /\ kalTrace' = <<>>
    /\ UNCHANGED << scriptVars, accelerometer, barometer, gyroscope, magnetometer, temperature,
                    initFiltersFromAccel, gyrAngles, kalmanBias, listObjs,
                    kalmanAngles, complementaryAngles, kalmanSeeded,
                    complementarySeeded, kalmanCalls, complementaryCalls,
                    configured, fusionCalls, kalmanDeltaTs >>

(* A calibrateGyroAngles that does not store its arguments. *)
CalibrateGyroAnglesDropped(seed) ==
    /\ call' = Observed("calibrateGyroAngles", TRUE, TRUE, TRUE, 0,
                        seed, None, None, None, Ret(None))
    /\ kalTrace' = <<>>
    /\ UNCHANGED << scriptVars, accelerometer, barometer, gyroscope, magnetometer, temperature,
                    initFiltersFromAccel, accelGyroSensor, gyrAngles, kalmanBias,
                    listObjs, kalmanAngles, complementaryAngles, kalmanSeeded,
                    complementarySeeded, kalmanCalls, complementaryCalls,
                    configured, fusionCalls, kalmanDeltaTs >>

(* A calibrateGyroAngles that also clears the Kalman filter. *)
CalibrateGyroAnglesClearing(seed) ==
    /\ gyrAngles' = seed
    /\ kalmanBias' = <<0, 0, 0>>
    /\ listObjs' = [o \in DOMAIN listObjs |-> <<0, 0, 0, 0>>]
    /\ kalmanAngles' = <<Some(0), Some(0), Some(0)>>
    /\ call' = Observed("calibrateGyroAngles", TRUE, TRUE, TRUE, 0,
                        seed, None, None, None, Ret(None))
    /\ kalTrace' = <<>>
    /\ UNCHANGED << scriptVars, accelerometer, barometer, gyroscope, magnetometer, temperature,
                    initFiltersFromAccel, accelGyroSensor, complementaryAngles,
                    kalmanSeeded, complementarySeeded, kalmanCalls,
                    complementaryCalls, configured, fusionCalls, kalmanDeltaTs >>

(* AltIMU.calibrateGyroAngles *)
CalibrateGyroAngles(seed) ==
    /\ gyrAngles' = seed
    /\ call' = Observed("calibrateGyroAngles", TRUE, TRUE, TRUE, 0,
                        seed, None, None, None, Ret(None))
    /\ kalTrace' = <<>>
    /\ UNCHANGED << scriptVars, accelerometer, barometer, gyroscope, magnetometer, temperature,
                    initFiltersFromAccel, accelGyroSensor, kalmanBias, listObjs,
                    kalmanAngles, complementaryAngles, kalmanSeeded,
                    complementarySeeded, kalmanCalls, complementaryCalls,
                    configured, fusionCalls, kalmanDeltaTs >>

---------------------------------------------------------------------------
(* The sensor-reading methods of AltIMU. *)

(* AltIMU.getGyroRotationRates *)
GyroRotationRates(x, y, z, block, ioFail) ==
    IF ~(gyroscope /\ (x \/ y \/ z))
    THEN Ret(<<None, None, None>>)
    ELSE IF IsNone(accelGyroSensor)
    THEN Raise("AttributeError")
    ELSE LET gyrRaw == GetGyroscopeRaw(Val(accelGyroSensor), x, y, z, block, ioFail)
         IN  IF gyrRaw.st # "ok"
             THEN gyrRaw
             ELSE Ret([i \in Axes |->
                        IF IsNone(gyrRaw.v[i]) THEN None
                        ELSE Some(Val(gyrRaw.v[i]) * GYRO_GAIN)])

(* degrees(math.atan2(a, b)) for the directions whose angle is a multiple *)
(* of 45 degrees; atan2(0, 0) is 0.                                       *)
Atan2Deg(a, b) ==
    CASE a = 0 /\ b >= 0      -> 0
      [] a = 0 /\ b < 0       -> 180
      [] a > 0 /\ b = 0       -> 90
      [] a < 0 /\ b = 0       -> -90
      [] a > 0 /\ b = a       -> 45
      [] a > 0 /\ b = -a      -> 135
      [] a < 0 /\ b = -a      -> -45
      [] a < 0 /\ b = a       -> -135

(* The tilt with the two arguments of atan2 exchanged. *)
TiltAngleSwapped(a, b) == FromInt(Atan2Deg(b, a) + 180)

(* math.degrees(math.atan2(a, b) + math.pi) *)
TiltAngle(a, b) == FromInt(Atan2Deg(a, b) + 180)

(* AltIMU.getAccelerometerAngles *)
AccelerometerAngles(x, y, z, block, ioFail) ==
    IF ~(accelerometer /\ (x \/ y \/ z))
    THEN Ret(<<None, None, None>>)
    ELSE IF IsNone(accelGyroSensor)
    THEN Raise("AttributeError")
    ELSE LET raw == GetAccelerometerRaw(Val(accelGyroSensor), x, y, z, block, ioFail)
         IN  IF raw.st # "ok"
             THEN raw
             ELSE IF \E i \in Axes : IsNone(raw.v[i])
             THEN Raise("TypeError")      \* math.atan2(None, ...)
             ELSE LET accelXRaw == Val(raw.v[1])
                      accelYRaw == Val(raw.v[2])
                      accelZRaw == Val(raw.v[3])
                  IN  Ret(<< Some(TiltAngle(accelYRaw, accelZRaw)),
                             Some(TiltAngle(accelXRaw, accelZRaw)),
                             Some(TiltAngle(accelXRaw, accelYRaw)) >>)

(* The variables only the fusion methods write. *)
fusionVars ==
    << initFiltersFromAccel, gyrAngles, kalmanBias, listObjs, kalmanAngles,
       complementaryAngles, kalmanSeeded, complementarySeeded, kalmanCalls,
       complementaryCalls, configured, fusionCalls, kalmanDeltaTs >>

deviceVars ==
    << accelerometer, barometer, gyroscope, magnetometer, temperature,
       accelGyroSensor >>

(* The raw vector a reading got from the LSM6DS33, None if it got none. *)
RawOf(reading) == IF reading.st = "ok" THEN reading.v ELSE None

GyroRaw(x, y, z, block, ioFail) ==
    IF gyroscope /\ (x \/ y \/ z) /\ ~IsNone(accelGyroSensor)
    THEN RawOf(GetGyroscopeRaw(Val(accelGyroSensor), x, y, z, block, ioFail))
    ELSE None

AccelRaw(x, y, z, block, ioFail) ==
    IF accelerometer /\ (x \/ y \/ z) /\ ~IsNone(accelGyroSensor)
    THEN RawOf(GetAccelerometerRaw(Val(accelGyroSensor), x, y, z, block, ioFail))
    ELSE None

(* AltIMU.getGyroRotationRates, called by the user *)
GetGyroRotationRates(x, y, z, block, ioFail) ==
    /\ call' = Observed("getGyroRotationRates", x, y, z, 0, None,
                        GyroRaw(x, y, z, block, ioFail), None, None,
                        GyroRotationRates(x, y, z, block, ioFail))
    /\ kalTrace' = <<>>
    /\ UNCHANGED << scriptVars, fusionVars, deviceVars >>

(* AltIMU.getAccelerometerAngles, called by the user *)
GetAccelerometerAngles(x, y, z, block, ioFail) ==
    /\ call' = Observed("getAccelerometerAngles", x, y, z, 0, None,
                        AccelRaw(x, y, z, block, ioFail), None, None,
                        AccelerometerAngles(x, y, z, block, ioFail))
    /\ kalTrace' = <<>>
    /\ UNCHANGED << scriptVars, fusionVars, deviceVars >>

(* An integration that adds the rate itself, not the rate times deltaT. *)
TrackedAnglesUnscaled(angles, gyrRates, deltaT) ==
    [i \in Axes |-> angles[i] + Val(gyrRates[i])]

(* An integration that forgets the accumulated angle. *)
TrackedAnglesReplaced(angles, gyrRates, deltaT) ==
    [i \in Axes |-> FMul(Val(gyrRates[i]), deltaT)]

(* Lines 215-217 of trackGyroAngles, all three rates being numbers. *)
TrackedAngles(angles, gyrRates, deltaT) ==
    [i \in Axes |-> angles[i] + FMul(Val(gyrRates[i]), deltaT)]

(* The outcome of trackGyroAngles: what it returns or raises, and the     *)
(* tracked angles it leaves.                                              *)
TrackOutcome(x, y, z, deltaT, block, ioFail) ==
    LET same(r, rates) == [r |-> r, angles |-> gyrAngles, moved |-> FALSE,
                           rates |-> rates]
    IN  IF Len(gyrAngles) # 3
        THEN same(Raise("Exception: Gyroscope must be calibrated before angle tracking!"),
                  None)
        ELSE IF ~(gyroscope /\ (x \/ y \/ z))
        THEN same(Ret([i \in Axes |-> Some(gyrAngles[i])]), None)
        ELSE LET gyrRates == GyroRotationRates(x, y, z, block, ioFail)
             IN  IF gyrRates.st # "ok"
                 THEN same(gyrRates, None)
                 ELSE IF \E i \in Axes : IsNone(gyrRates.v[i])
                 THEN \* gyrRates is a tuple, never None: None * deltaT
                      same(Raise("TypeError"), gyrRates.v)
                 ELSE LET new == TrackedAngles(gyrAngles, gyrRates.v, deltaT)
                      IN  [r |-> Ret([i \in Axes |-> Some(new[i])]), angles |-> new,
                           moved |-> TRUE, rates |-> gyrRates.v]

(* AltIMU.trackGyroAngles *)
TrackGyroAngles(x, y, z, deltaT, block, ioFail) ==
    \E o \in {TrackOutcome(x, y, z, deltaT, block, ioFail)} :
        /\ o.moved => fusionCalls < MaxFusionCalls
        /\ gyrAngles' = o.angles
        /\ fusionCalls' = IF o.moved THEN fusionCalls + 1 ELSE fusionCalls
        /\ call' = Observed("trackGyroAngles", x, y, z,
                            IF o.moved THEN deltaT ELSE 0, None,
                            IF IsNone(o.rates) THEN None
                            ELSE GyroRaw(x, y, z, block, ioFail),
                            o.rates, None, o.r)
        /\ kalTrace' = <<>>
        /\ UNCHANGED << scriptVars, initFiltersFromAccel, kalmanBias, listObjs, kalmanAngles,
                        complementaryAngles, kalmanSeeded, complementarySeeded,
                        kalmanCalls, complementaryCalls, configured, deviceVars,
                        kalmanDeltaTs >>

---------------------------------------------------------------------------
(* The complementary filter. *)

(* Lines 263-276 of getComplementaryAngles, on the readings gyrRates and  *)
(* accelAngles: the seeding, then the list comprehension, which names     *)
(* accAngles, a variable that does not exist: evaluating it for the first *)
(* axis whose rate is present raises NameError before the assignment.     *)
ComplementaryBody(gyrRates, accelAngles) ==
    LET seed   == initFiltersFromAccel = "True"
        seeded == IF seed THEN accelAngles ELSE complementaryAngles
        flag   == IF seed THEN "False" ELSE initFiltersFromAccel
    IN  IF \E i \in Axes : ~IsNone(gyrRates[i])
        THEN [r |-> Raise("NameError"), angles |-> seeded, flag |-> flag,
              seed |-> seed]
        ELSE [r |-> Ret(<<None, None, None>>), angles |-> <<None, None, None>>,
              flag |-> flag, seed |-> seed]

(* The outcome of getComplementaryAngles when its two readings give gyrRates *)
(* and accelAngles (each a return or a raise).                              *)
ComplementaryOutcome(x, y, z, gyrRates, accelAngles) ==
    LET same(r) == [r |-> r, angles |-> complementaryAngles,
                    flag |-> initFiltersFromAccel, seed |-> FALSE,
                    reached |-> FALSE, rates |-> None, accel |-> None]
    IN  IF ~(accelerometer /\ gyroscope /\ (x \/ y \/ z))
        THEN same(Ret(<<None, None, None>>))
        ELSE IF gyrRates.st # "ok" THEN same(gyrRates)
        ELSE IF accelAngles.st # "ok" THEN same(accelAngles)
        ELSE The({ [r |-> b.r, angles |-> b.angles, flag |-> b.flag,
                    seed |-> b.seed, reached |-> TRUE,
                    rates |-> gyrRates.v, accel |-> accelAngles.v] :
                   b \in {ComplementaryBody(gyrRates.v, accelAngles.v)} })

(* AltIMU.getComplementaryAngles, its two readings giving gyrRates and    *)
(* accelAngles.                                                           *)
ComplementaryCall(x, y, z, deltaT, gyrRates, accelAngles) ==
    \E o \in {ComplementaryOutcome(x, y, z, gyrRates, accelAngles)} :
        /\ o.reached => fusionCalls < MaxFusionCalls
        /\ complementaryAngles' = o.angles
        /\ initFiltersFromAccel' = o.flag
        /\ complementarySeeded' = IF o.seed THEN complementarySeeded + 1
                                  ELSE complementarySeeded
        /\ complementaryCalls' = IF o.reached THEN complementaryCalls + 1
                                 ELSE complementaryCalls
        /\ fusionCalls' = IF o.reached THEN fusionCalls + 1 ELSE fusionCalls
        /\ call' = Filtered("getComplementaryAngles", x, y, z, 0,
                            o.rates, o.accel, o.r)
        /\ kalTrace' = <<>>
        /\ UNCHANGED << scriptVars, gyrAngles, kalmanBias, listObjs, kalmanAngles,
                        kalmanSeeded, kalmanCalls, configured, deviceVars,
                        kalmanDeltaTs >>

(* AltIMU.getComplementaryAngles on the device *)
GetComplementaryAngles(x, y, z, deltaT, gyroBlock, accelBlock, ioFail) ==
    \E gyrRates \in {GyroRotationRates(x, y, z, gyroBlock, ioFail)} :
    \E accelAngles \in {AccelerometerAngles(x, y, z, accelBlock, ioFail)} :
        ComplementaryCall(x, y, z, deltaT, gyrRates, accelAngles)

---------------------------------------------------------------------------
(* The Kalman filter. *)

(* A predict step that updates kalmanP[3] first, so that kalmanP[1] and    *)
(* kalmanP[2] are computed from the new kalmanP[3].                       *)
KalmanPredictReordered(P, deltaT) ==
    The({ << P[1] + (FMul(-deltaT, P[2] + P[3]) + FMul(Q_ANGLE, deltaT)),
             P[2] + FMul(-deltaT, p3),
             P[3] + FMul(-deltaT, p3),
             p3 >> : p3 \in {P[4] + FMul(Q_GYRO, deltaT)} })

(* Lines 87-90 of _calculateKalmanAngle: the predict step on the list.    *)
(* P[1], P[2], P[3], P[4] are kalmanP[0..3], that is P00, P01, P10, P11.  *)
KalmanPredict(P, deltaT) ==
    << P[1] + (FMul(-deltaT, P[2] + P[3]) + FMul(Q_ANGLE, deltaT)),
       P[2] + FMul(-deltaT, P[4]),
       P[3] + FMul(-deltaT, P[4]),
       P[4] + FMul(Q_GYRO, deltaT) >>

(* Decrements whose first two statements add instead of subtract. *)
KalmanDecrementGrowing(P, kal0, kal1) ==
    The({ << p0, p1, P[3] - FMul(kal1, p0), P[4] - FMul(kal1, p1) >> :
          p0 \in {P[1] + FMul(kal0, P[1])}, p1 \in {P[2] + FMul(kal0, P[2])} })

(* Lines 101-104: the four decrements, each statement reading the list as *)
(* the statements before it left it: kalmanP[2] and kalmanP[3] are        *)
(* decremented by kal1 times the new kalmanP[0] and kalmanP[1].           *)
KalmanDecrement(P, kal0, kal1) ==
    The({ << p0, p1, P[3] - FMul(kal1, p0), P[4] - FMul(kal1, p1) >> :
          p0 \in {P[1] - FMul(kal0, P[1])}, p1 \in {P[2] - FMul(kal0, P[2])} })

(* Lines 92-104, on the predicted list. *)
KalmanUpdate(pred, angle, bias, accelAngle) ==
    The({ IF kalS = 0
          THEN \* the float division raises
               [st |-> "ZeroDivisionError", P |-> pred, pred |-> pred,
                angle |-> angle, bias |-> bias, kalY |-> kalY, kalS |-> kalS,
                kal0 |-> 0, kal1 |-> 0]
          ELSE The({ [st |-> "ok", P |-> KalmanDecrement(pred, kal0, kal1),
                      pred |-> pred,
                      angle |-> angle + FMul(kal0, kalY),
                      bias |-> bias + FMul(kal1, kalY),
                      kalY |-> kalY, kalS |-> kalS, kal0 |-> kal0, kal1 |-> kal1] :
                     kal0 \in {FDiv(pred[1], kalS)}, kal1 \in {FDiv(pred[3], kalS)} }) :
          kalY \in {accelAngle - angle}, kalS \in {pred[1] + R_ANGLE} })

(* AltIMU._calculateKalmanAngle on the list P, for one axis whose angle   *)
(* and bias are given: the list, angle and bias it leaves, and whether it *)
(* raised.                                                                *)
CalculateKalmanAngle(P, angle, bias, accelAngle, deltaT) ==
    The({ KalmanUpdate(pred, angle, bias, accelAngle) :
          pred \in {KalmanPredict(P, deltaT)} })

(* The covariance of each axis, as its name shows it, in the lists `ls`. *)
PView(ls) == [a \in Axes |-> ls[KalmanRef(a)]]

(* The running state s of a call after _calculateKalmanAngle gave c for   *)
(* `axis`: the list is changed in place, the angle and bias are stored.   *)
KalmanStored(s, axis, accelAngle, deltaT, c) ==
    The({ [st     |-> c.st,
           lists  |-> ls,
           angles |-> [s.angles EXCEPT ![axis] = Some(c.angle)],
           bias   |-> [s.bias EXCEPT ![axis] = c.bias],
           start  |-> s.start,
           rates  |-> s.rates,
           trace  |-> Append(s.trace,
                        [axis |-> axis, deltaT |-> deltaT, accel |-> accelAngle,
                         rate |-> Val(s.rates[axis]),
                         angleStart |-> Val(s.start[axis]),
                         before |-> PView(s.lists), pred |-> c.pred,
                         after |-> PView(ls),
                         angleIn |-> Val(s.angles[axis]), angleOut |-> c.angle,
                         biasIn |-> s.bias[axis], biasOut |-> c.bias,
                         kalY |-> c.kalY, kalS |-> c.kalS,
                         kal0 |-> c.kal0, kal1 |-> c.kal1])] :
          ls \in {[s.lists EXCEPT ![KalmanRef(axis)] = c.P]} })

(* One of the three `if x: self._calculateKalmanAngle(self.kalmanXP, ...)` *)
(* statements (lines 304-309), on the running state s of the call.        *)
KalmanAxisStep(s, axis, requested, accelAngles, deltaT) ==
    IF ~requested \/ s.st # "ok"
    THEN s
    ELSE IF IsNone(s.angles[axis]) \/ IsNone(accelAngles[axis])
    THEN \* accelAngles[axis] - self.kalmanAngles[axis] with a None
         [s EXCEPT !.st = "TypeError"]
    ELSE The({ KalmanStored(s, axis, Val(accelAngles[axis]), deltaT, c) :
               c \in {CalculateKalmanAngle(s.lists[KalmanRef(axis)],
                                           Val(s.angles[axis]), s.bias[axis],
                                           Val(accelAngles[axis]), deltaT)} })

(* Line 299: the gyroscope parts. *)
KalmanGyroParts(angles, gyrRates, deltaT) ==
    [i \in Axes |->
        IF IsNone(gyrRates[i]) THEN None
        ELSE Some(Val(angles[i]) + FMul(Val(gyrRates[i]) - kalmanBias[i], deltaT))]

(* Lines 298-312, on the angles as the seeding left them. *)
KalmanCycle(seeded, gyrRates, accelAngles, x, y, z, deltaT) ==
    IF \E i \in Axes : ~IsNone(gyrRates[i]) /\ IsNone(seeded[i])
    THEN \* None + float in the list comprehension of line 299
         [st |-> "TypeError", lists |-> listObjs, angles |-> seeded,
          bias |-> kalmanBias, start |-> seeded, rates |-> gyrRates,
          trace |-> <<>>]
    ELSE The({ s3 :
           s3 \in { KalmanAxisStep(s2, 3, z, accelAngles, deltaT) :
           s2 \in { KalmanAxisStep(s1, 2, y, accelAngles, deltaT) :
           s1 \in { KalmanAxisStep(s0, 1, x, accelAngles, deltaT) :
           s0 \in { [st |-> "ok", lists |-> listObjs,
                     angles |-> KalmanGyroParts(seeded, gyrRates, deltaT),
                     bias |-> kalmanBias, start |-> seeded, rates |-> gyrRates,
                     trace |-> <<>>] } } } } })

(* Lines 292-312 of getKalmanAngles, on the readings gyrRates and         *)
(* accelAngles: the seeding, the gyroscope parts, the accelerometer parts. *)
KalmanBody(gyrRates, accelAngles, x, y, z, deltaT) ==
    The({ The({ [r |-> IF s.st = "ok" THEN Ret(s.angles) ELSE Raise(s.st),
                 s |-> s,
                 flag |-> IF seed THEN "False" ELSE initFiltersFromAccel,
                 seed |-> seed] :
                s \in { KalmanCycle(IF seed THEN accelAngles ELSE kalmanAngles,
                                    gyrRates, accelAngles, x, y, z, deltaT) } }) :
          seed \in {initFiltersFromAccel = "True"} })

(* The outcome of getKalmanAngles when its two readings give gyrRates and  *)
(* accelAngles (each a return or a raise).                                *)
KalmanOutcome(x, y, z, deltaT, gyrRates, accelAngles) ==
    LET same(r) == [r |-> r, flag |-> initFiltersFromAccel, seed |-> FALSE,
                    reached |-> FALSE, rates |-> None, accel |-> None,
                    s |-> [st |-> r.st, lists |-> listObjs, angles |-> kalmanAngles,
                           bias |-> kalmanBias, trace |-> <<>>]]
    IN  IF ~(accelerometer /\ gyroscope /\ (x \/ y \/ z))
        THEN same(Ret(<<None, None, None>>))
        ELSE IF gyrRates.st # "ok" THEN same(gyrRates)
        ELSE IF accelAngles.st # "ok" THEN same(accelAngles)
        ELSE The({ [r |-> b.r, flag |-> b.flag, seed |-> b.seed,
                    reached |-> TRUE, rates |-> gyrRates.v,
                    accel |-> accelAngles.v, s |-> b.s] :
                   b \in {KalmanBody(gyrRates.v, accelAngles.v, x, y, z, deltaT)} })

(* AltIMU.getKalmanAngles, its two readings giving gyrRates and accelAngles. *)
KalmanCall(x, y, z, deltaT, gyrRates, accelAngles) ==
    /\ (accelerometer /\ gyroscope /\ (x \/ y \/ z)
          /\ gyrRates.st = "ok" /\ accelAngles.st = "ok")
            => fusionCalls < MaxFusionCalls
    /\ \E o \in {KalmanOutcome(x, y, z, deltaT, gyrRates, accelAngles)} :
        /\ o.reached => fusionCalls < MaxFusionCalls
        /\ kalmanAngles' = o.s.angles
        /\ kalmanBias' = o.s.bias
        /\ listObjs' = o.s.lists
        /\ initFiltersFromAccel' = o.flag
        /\ kalmanSeeded' = IF o.seed THEN kalmanSeeded + 1 ELSE kalmanSeeded
        /\ kalmanCalls' = IF o.reached THEN kalmanCalls + 1 ELSE kalmanCalls
        /\ fusionCalls' = IF o.reached THEN fusionCalls + 1 ELSE fusionCalls
        /\ call' = Filtered("getKalmanAngles", x, y, z,
                            IF o.reached THEN deltaT ELSE 0, o.rates, o.accel, o.r)
        /\ kalTrace' = o.s.trace
        /\ kalmanDeltaTs' = kalmanDeltaTs
                               \cup { o.s.trace[k].deltaT : k \in 1..Len(o.s.trace) }
        /\ UNCHANGED << scriptVars, gyrAngles, complementaryAngles, complementarySeeded,
                        complementaryCalls, configured, deviceVars >>

(* AltIMU.getKalmanAngles on the device *)
GetKalmanAngles(x, y, z, deltaT, gyroBlock, accelBlock, ioFail) ==
    \E gyrRates \in {GyroRotationRates(x, y, z, gyroBlock, ioFail)} :
    \E accelAngles \in {AccelerometerAngles(x, y, z, accelBlock, ioFail)} :
        KalmanCall(x, y, z, deltaT, gyrRates, accelAngles)

---------------------------------------------------------------------------
Next ==
    \/ \E arg \in EnableArgs : Enable(arg)
    \/ \E a \in SensorEnableArgs : SensorEnable(a[1], a[2], a[3])
    \/ \E seed \in CalSeeds : CalibrateGyroAngles(seed)
    \/ \E q \in AxisRequests, f \in ReadFrames :
          GetGyroRotationRates(q[1], q[2], q[3], f.gyro, f.ioFail)
    \/ \E q \in AxisRequests, f \in ReadFrames :
          GetAccelerometerAngles(q[1], q[2], q[3], f.accel, f.ioFail)
    \/ \E q \in AxisRequests, deltaT \in TrackDeltaTs, f \in Frames :
          TrackGyroAngles(q[1], q[2], q[3], deltaT, f.gyro, f.ioFail)
    \/ \E q \in AxisRequests, deltaT \in ComplementaryDeltaTs, f \in Frames :
          GetComplementaryAngles(q[1], q[2], q[3], deltaT, f.gyro, f.accel, f.ioFail)
    \/ \E q \in AxisRequests, deltaT \in DeltaTs, f \in Frames :
          GetKalmanAngles(q[1], q[2], q[3], deltaT, f.gyro, f.accel, f.ioFail)

Spec == Init /\ [][Next]_vars

---------------------------------------------------------------------------
(* The methods of AltIMU called with their default axes (all three) and   *)
(* default deltaT on one instance, from construction on.                  *)

DefaultRequest == <<TRUE, TRUE, TRUE>>
DefaultTrackDeltaT == 200        \* deltaT = 0.0002 of trackGyroAngles
DefaultFilterDeltaT == 50000     \* deltaT = 0.05 of both filters

NextDefaults ==
    \/ \E arg \in EnableArgs : Enable(arg)
    \/ \E a \in SensorEnableArgs : SensorEnable(a[1], a[2], a[3])
    \/ \E seed \in CalSeeds : CalibrateGyroAngles(seed)
    \/ \E f \in ReadFrames :
          GetGyroRotationRates(DefaultRequest[1], DefaultRequest[2],
                               DefaultRequest[3], f.gyro, f.ioFail)
    \/ \E f \in ReadFrames :
          GetAccelerometerAngles(DefaultRequest[1], DefaultRequest[2],
                                 DefaultRequest[3], f.accel, f.ioFail)
    \/ \E f \in Frames :
          TrackGyroAngles(DefaultRequest[1], DefaultRequest[2], DefaultRequest[3],
                          DefaultTrackDeltaT, f.gyro, f.ioFail)
    \/ \E f \in Frames :
          GetComplementaryAngles(DefaultRequest[1], DefaultRequest[2],
                                 DefaultRequest[3], DefaultFilterDeltaT,
                                 f.gyro, f.accel, f.ioFail)
    \/ \E f \in Frames :
          GetKalmanAngles(DefaultRequest[1], DefaultRequest[2], DefaultRequest[3],
                          DefaultFilterDeltaT, f.gyro, f.accel, f.ioFail)

SpecDefaults == Init /\ [][NextDefaults]_vars

---------------------------------------------------------------------------
(* The filter on stubbed readings: getGyroRotationRates and               *)
(* getAccelerometerAngles replaced by functions that return given values, *)
(* on an instance after enable(accelerometer = True, gyroscope = True).   *)

StubRates == { 10000000, 0 }           \* 10.0 and 0.0 degrees/second
StubTilts == { 600000, 90000000 }      \* 0.6 and 90.0 degrees
StubRequests == { <<TRUE, TRUE, TRUE>>, <<TRUE, FALSE, FALSE>>, <<FALSE, TRUE, TRUE>> }

(* What the stubs return: the rate for the requested axes, the tilt for   *)
(* every axis.                                                            *)
StubGyroRotationRates(q, r) == Ret([i \in Axes |-> IF q[i] THEN Some(r) ELSE None])
StubAccelerometerAngles(a) == Ret([i \in Axes |-> Some(a)])

(* AltIMU() followed by enable(accelerometer = True, gyroscope = True,    *)
(* initFiltersFromAccel = f): the state enable leaves when it raises.     *)
InitStubbed ==
    /\ accelerometer = TRUE /\ barometer = FALSE /\ gyroscope = TRUE
    /\ magnetometer = FALSE /\ temperature = FALSE
    /\ initFiltersFromAccel \in {"False", "True"}
    /\ configured = initFiltersFromAccel
    /\ accelGyroSensor = Some(NewSensor)
    /\ gyrAngles = <<>>
    /\ kalmanBias = <<0, 0, 0>>
    /\ listObjs = (kalmanXP :> <<0, 0, 0, 0>>) @@ (kalmanYP :> <<0, 0, 0, 0>>)
                    @@ (kalmanZP :> <<0, 0, 0, 0>>)
    /\ kalmanAngles = <<Some(0), Some(0), Some(0)>>
    /\ complementaryAngles = <<Some(0), Some(0), Some(0)>>
    /\ call = Called("enable", TRUE, TRUE, TRUE, 0, Raise("TypeError"))
    /\ kalTrace = <<>>
    /\ kalmanSeeded = 0 /\ complementarySeeded = 0
    /\ kalmanCalls = 0 /\ complementaryCalls = 0
    /\ fusionCalls = 0
    /\ kalmanDeltaTs = {}
    /\ ScriptsNotRun

(* getKalmanAngles on the stubs *)
StubbedKalmanAngles(q, r, a, deltaT) ==
    KalmanCall(q[1], q[2], q[3], deltaT,
               StubGyroRotationRates(q, r), StubAccelerometerAngles(a))

NextStubbed ==
    \E q \in StubRequests, r \in StubRates, a \in StubTilts, deltaT \in DeltaTs :
        StubbedKalmanAngles(q, r, a, deltaT)

SpecStubbed == InitStubbed /\ [][NextStubbed]_vars

---------------------------------------------------------------------------
(* The filter on stubbed readings with long steps: getKalmanAngles called *)
(* with deltaT 20.0 and 0.05, the y and z axes requested.                 *)

LongDeltaTs == { 50000, 20000000 }        \* 0.05 (the default) and 20.0
LongRates == { 0, 1000000 }               \* 0.0 and 1.0 degrees/second
LongTilts == { 600000, 6000000 }          \* 0.6 and 6.0 degrees
LongRequests == { <<FALSE, TRUE, TRUE>>, <<FALSE, FALSE, TRUE>> }

(* getKalmanAngles(x = False, deltaT = 20.0) on a new instance, rate 0.0  *)
(* and tilt 0.6 on every axis, nothing seeded: the gyroscope parts are 0  *)
(* for y and z and None for x, then the y run and the z run work on the   *)
(* one list.                                                              *)
FirstLongY == CalculateKalmanAngle(<<0, 0, 0, 0>>, 0, 0, 600000, 20000000)
FirstLongZ == CalculateKalmanAngle(FirstLongY.P, 0, 0, 600000, 20000000)

(* AltIMU(), enable(accelerometer = True, gyroscope = True,               *)
(* initFiltersFromAccel = False) and that first call.  The counters and   *)
(* the trace count from this state on.                                    *)
InitLongSteps ==
    /\ accelerometer = TRUE /\ barometer = FALSE /\ gyroscope = TRUE
    /\ magnetometer = FALSE /\ temperature = FALSE
    /\ initFiltersFromAccel = "False"
    /\ configured = "False"
    /\ accelGyroSensor = Some(NewSensor)
    /\ gyrAngles = <<>>
    /\ kalmanBias = <<0, FirstLongY.bias, FirstLongZ.bias>>
    /\ listObjs = (kalmanXP :> FirstLongZ.P) @@ (kalmanYP :> FirstLongZ.P)
                    @@ (kalmanZP :> FirstLongZ.P)
    /\ kalmanAngles = <<None, Some(FirstLongY.angle), Some(FirstLongZ.angle)>>
    /\ complementaryAngles = <<Some(0), Some(0), Some(0)>>
    /\ call = Filtered("getKalmanAngles", FALSE, TRUE, TRUE, 20000000,
                       <<None, Some(0), Some(0)>>,
                       <<Some(600000), Some(600000), Some(600000)>>,
                       Ret(<<None, Some(FirstLongY.angle), Some(FirstLongZ.angle)>>))
    /\ kalTrace = <<>>
    /\ kalmanSeeded = 0 /\ complementarySeeded = 0
    /\ kalmanCalls = 0 /\ complementaryCalls = 0
    /\ fusionCalls = 0
    /\ kalmanDeltaTs = {20000000}
    /\ ScriptsNotRun

NextLongSteps ==
    \E q \in LongRequests, r \in LongRates, a \in LongTilts, deltaT \in LongDeltaTs :
        StubbedKalmanAngles(q, r, a, deltaT)

SpecLongSteps == InitLongSteps /\ [][NextLongSteps]_vars

---------------------------------------------------------------------------
(* The sensor-reading and gyro-tracking methods on the device, on an      *)
(* instance after enable(): getGyroRotationRates, getAccelerometerAngles, *)
(* calibrateGyroAngles and trackGyroAngles do not touch the filters.      *)

SensingFrames ==
    { Frame(<<100, 0, 0, 0, 206, 255>>, <<0, 0, 0, 0, 232, 3>>, FALSE),
          \* gyro raw (100, 0, -50), accel raw (0, 0, 1000)
      Frame(<<1, 0, 0, 0, 253, 255>>, <<232, 3, 24, 252, 0, 0>>, FALSE),
          \* gyro raw (1, 0, -3), accel raw (1000, -1000, 0)
      Frame(<<0, 0, 0, 0, 0, 0>>, <<0, 0, 0, 0, 232, 3>>, TRUE) }

SensingDeltaTs == { 200, 20000 }     \* 0.0002 (the default) and 0.02

(* AltIMU() followed by enable(): the state enable leaves when it raises. *)
InitSensing ==
    /\ accelerometer = TRUE /\ barometer = TRUE /\ gyroscope = TRUE
    /\ magnetometer = TRUE /\ temperature = TRUE
    /\ initFiltersFromAccel = "True"
    /\ configured = "True"
    /\ accelGyroSensor = Some(NewSensor)
    /\ gyrAngles = <<>>
    /\ kalmanBias = <<0, 0, 0>>
    /\ listObjs = (kalmanXP :> <<0, 0, 0, 0>>) @@ (kalmanYP :> <<0, 0, 0, 0>>)
                    @@ (kalmanZP :> <<0, 0, 0, 0>>)
    /\ kalmanAngles = <<Some(0), Some(0), Some(0)>>
    /\ complementaryAngles = <<Some(0), Some(0), Some(0)>>
    /\ call = Called("enable", TRUE, TRUE, TRUE, 0, Raise("TypeError"))
    /\ kalTrace = <<>>
    /\ kalmanSeeded = 0 /\ complementarySeeded = 0
    /\ kalmanCalls = 0 /\ complementaryCalls = 0
    /\ fusionCalls = 0
    /\ kalmanDeltaTs = {}
    /\ ScriptsNotRun

(* The record of a call made on the LSM6DS33 object directly: as for the  *)
(* other calls, and the register contents the bus held.                   *)
SensorRead(op, x, y, z, block, r) ==
    [op |-> op, x |-> x, y |-> y, z |-> z, deltaT |-> 0,
     seed |-> None, raw |-> RawOf(r), rates |-> None, accel |-> None,
     st |-> r.st, v |-> r.v, block |-> block]

(* imu.accelGyroSensor.getGyroscopeRaw(x, y, z) *)
SensorGetGyroscopeRaw(x, y, z, block, ioFail) ==
    /\ ~IsNone(accelGyroSensor)
    /\ call' = SensorRead("accelGyroSensor.getGyroscopeRaw", x, y, z, block,
                          GetGyroscopeRaw(Val(accelGyroSensor), x, y, z, block, ioFail))
    /\ kalTrace' = <<>>
    /\ UNCHANGED << scriptVars, fusionVars, deviceVars >>

(* imu.accelGyroSensor.getAccelerometerRaw(x, y, z) *)
SensorGetAccelerometerRaw(x, y, z, block, ioFail) ==
    /\ ~IsNone(accelGyroSensor)
    /\ call' = SensorRead("accelGyroSensor.getAccelerometerRaw", x, y, z, block,
                          GetAccelerometerRaw(Val(accelGyroSensor), x, y, z, block, ioFail))
    /\ kalTrace' = <<>>
    /\ UNCHANGED << scriptVars, fusionVars, deviceVars >>

NextSensing ==
    \/ \E a \in SensorEnableArgs : SensorEnable(a[1], a[2], a[3])
    \/ \E seed \in CalSeeds : CalibrateGyroAngles(seed)
    \/ \E q \in AxisRequests, f \in SensingFrames :
          GetGyroRotationRates(q[1], q[2], q[3], f.gyro, f.ioFail)
    \/ \E q \in AxisRequests, f \in SensingFrames :
          GetAccelerometerAngles(q[1], q[2], q[3], f.accel, f.ioFail)
    \/ \E q \in AxisRequests, deltaT \in SensingDeltaTs, f \in SensingFrames :
          TrackGyroAngles(q[1], q[2], q[3], deltaT, f.gyro, f.ioFail)
    \/ \E q \in AxisRequests, f \in SensingFrames :
          SensorGetGyroscopeRaw(q[1], q[2], q[3], f.gyro, f.ioFail)
    \/ \E q \in AxisRequests, f \in SensingFrames :
          SensorGetAccelerometerRaw(q[1], q[2], q[3], f.accel, f.ioFail)

SpecSensing == InitSensing /\ [][NextSensing]_vars

---------------------------------------------------------------------------
(* The vector functions (vector_functions.py) and LSM6DS33.normalizeVector. *)
(* A Python value is an int, None or a str; a str is the tuple of its     *)
(* characters.                                                            *)
PyInt(n) == [t |-> "int", n |-> n, s |-> <<>>]
PyStr(s) == [t |-> "str", n |-> 0, s |-> s]
PyNone   == [t |-> "NoneType", n |-> 0, s |-> <<>>]

(* s * n for a str s: n copies of s, none for n <= 0. *)
RECURSIVE PyRepeat(_, _)
PyRepeat(s, n) == IF n <= 0 THEN <<>> ELSE s \o PyRepeat(s, n - 1)

(* a * b, a + b and a - b on two outcomes: an operand that raised raises, *)
(* and operand types the operator does not support raise TypeError.       *)
PyMul(a, b) ==
    IF a.st # "ok" THEN a
    ELSE IF b.st # "ok" THEN b
    ELSE IF a.v.t = "int" /\ b.v.t = "int" THEN Ret(PyInt(a.v.n * b.v.n))
    ELSE IF a.v.t = "str" /\ b.v.t = "int" THEN Ret(PyStr(PyRepeat(a.v.s, b.v.n)))
    ELSE IF a.v.t = "int" /\ b.v.t = "str" THEN Ret(PyStr(PyRepeat(b.v.s, a.v.n)))
    ELSE Raise("TypeError")

PyAdd(a, b) ==
    IF a.st # "ok" THEN a
    ELSE IF b.st # "ok" THEN b
    ELSE IF a.v.t = "int" /\ b.v.t = "int" THEN Ret(PyInt(a.v.n + b.v.n))
    ELSE IF a.v.t = "str" /\ b.v.t = "str" THEN Ret(PyStr(a.v.s \o b.v.s))
    ELSE Raise("TypeError")

PySub(a, b) ==
    IF a.st # "ok" THEN a
    ELSE IF b.st # "ok" THEN b
    ELSE IF a.v.t = "int" /\ b.v.t = "int" THEN Ret(PyInt(a.v.n - b.v.n))
    ELSE Raise("TypeError")

(* vectorCross.  The second pair of assert statements tests a generator   *)
(* object, which is true whatever it would yield, so it never fails.      *)
vectorCross(vectorA, vectorB) ==
    IF ~(Len(vectorA) = 3 /\ Len(vectorB) = 3)
    THEN Raise("Exception: Input vectors have to be 3-dimensional")
    ELSE LET A(i) == Ret(vectorA[i + 1])
             B(i) == Ret(vectorB[i + 1])
             outX == PySub(PyMul(A(1), B(2)), PyMul(A(2), B(1)))
             outY == PySub(PyMul(A(2), B(0)), PyMul(A(0), B(2)))
             outZ == PySub(PyMul(A(0), B(1)), PyMul(A(1), B(0)))
         IN  IF outX.st # "ok" THEN outX
             ELSE IF outY.st # "ok" THEN outY
             ELSE IF outZ.st # "ok" THEN outZ
             ELSE Ret(<<outX.v, outY.v, outZ.v>>)

(* vectorDot, with the same checks. *)
vectorDot(vectorA, vectorB) ==
    IF ~(Len(vectorA) = 3 /\ Len(vectorB) = 3)
    THEN Raise("Exception: Input vectors have to be 3-dimensional")
    ELSE LET A(i) == Ret(vectorA[i + 1])
             B(i) == Ret(vectorB[i + 1])
         IN  PyAdd(PyAdd(PyMul(A(0), B(0)), PyMul(A(1), B(1))), PyMul(A(2), B(2)))

(* normalizeVector of vector_functions.py, called with the positional     *)
(* arguments args.  The function is declared with the parameters (self,   *)
(* vector); its first statement calls sqrt, a name the module neither     *)
(* defines nor imports, and the name is looked up before vectorDot runs.  *)
normalizeVector(args) ==
    IF Len(args) # 2
    THEN Raise("TypeError")      \* normalizeVector() takes exactly 2 arguments
    ELSE Raise("NameError")      \* global name 'sqrt' is not defined

(* LSM6DS33.normalizeVector(vector): lsm6ds33.py does not import sqrt     *)
(* either.                                                                *)
SensorNormalizeVector(sensor, vector) == Raise("NameError")

(* The components and vectors the functions are called with. *)
VectorComponents == { PyInt(0), PyInt(2), PyInt(-3), PyNone, PyStr(<<"a">>) }

(* Fully populated vectors for normalizeVector: magnitude 5, 2, 3 and 0. *)
NormalizeVectors ==
    { <<PyInt(3), PyInt(4), PyInt(0)>>, <<PyInt(0), PyInt(0), PyInt(-2)>>,
      <<PyInt(2), PyInt(-1), PyInt(2)>>, <<PyInt(0), PyInt(0), PyInt(0)>> }

Vectors ==
    { <<a, b, c>> : a \in VectorComponents, b \in VectorComponents,
                    c \in VectorComponents }
    \cup { <<PyInt(2), PyInt(-3)>>, <<PyInt(0), PyInt(2), PyInt(-3), PyInt(2)>> }
    \cup NormalizeVectors

(* The record of a call of a vector function on a and b (b is None for   *)
(* normalizeVector); op "arguments": the vectors picked, no call made yet. *)
VectorCalled(op, a, b, r) == [op |-> op, a |-> a, b |-> b, st |-> r.st, v |-> r.v]

(* AltIMU() followed by enable(), and a pair of vectors picked as the     *)
(* arguments of the call to come.                                         *)
InitVector ==
    /\ accelerometer = TRUE /\ barometer = TRUE /\ gyroscope = TRUE
    /\ magnetometer = TRUE /\ temperature = TRUE
    /\ initFiltersFromAccel = "True"
    /\ configured = "True"
    /\ accelGyroSensor = Some(NewSensor)
    /\ gyrAngles = <<>>
    /\ kalmanBias = <<0, 0, 0>>
    /\ listObjs = (kalmanXP :> <<0, 0, 0, 0>>) @@ (kalmanYP :> <<0, 0, 0, 0>>)
                    @@ (kalmanZP :> <<0, 0, 0, 0>>)
    /\ kalmanAngles = <<Some(0), Some(0), Some(0)>>
    /\ complementaryAngles = <<Some(0), Some(0), Some(0)>>
    /\ \E a \in Vectors, b \in Vectors :
          call = VectorCalled("arguments", a, b, Ret(None))
    /\ kalTrace = <<>>
    /\ kalmanSeeded = 0 /\ complementarySeeded = 0
    /\ kalmanCalls = 0 /\ complementaryCalls = 0
    /\ fusionCalls = 0
    /\ kalmanDeltaTs = {}
    /\ ScriptsNotRun

(* vectorCross(a, b) on the arguments picked *)
CallVectorCross ==
    /\ call.op = "arguments"
    /\ call' = VectorCalled("vectorCross", call.a, call.b,
                            vectorCross(call.a, call.b))
    /\ UNCHANGED << scriptVars, kalTrace, fusionVars, deviceVars >>

(* vectorDot(a, b) on the arguments picked *)
CallVectorDot ==
    /\ call.op = "arguments"
    /\ call' = VectorCalled("vectorDot", call.a, call.b,
                            vectorDot(call.a, call.b))
    /\ UNCHANGED << scriptVars, kalTrace, fusionVars, deviceVars >>

(* normalizeVector(a), the function of vector_functions.py *)
CallNormalizeVector ==
    /\ call.op = "arguments" /\ call.a \in NormalizeVectors
    /\ call' = VectorCalled("normalizeVector", call.a, None,
                            normalizeVector(<<call.a>>))
    /\ UNCHANGED << scriptVars, kalTrace, fusionVars, deviceVars >>

(* imu.accelGyroSensor.normalizeVector(a) *)
CallSensorNormalizeVector ==
    /\ call.op = "arguments" /\ call.a \in NormalizeVectors
    /\ ~IsNone(accelGyroSensor)
    /\ call' = VectorCalled("accelGyroSensor.normalizeVector", call.a, None,
                            SensorNormalizeVector(Val(accelGyroSensor), call.a))
    /\ UNCHANGED << scriptVars, kalTrace, fusionVars, deviceVars >>

NextVector ==
    \/ CallVectorCross
    \/ CallVectorDot
    \/ CallNormalizeVector
    \/ CallSensorNormalizeVector

SpecVector == InitVector /\ [][NextVector]_vars

---------------------------------------------------------------------------
(* The balancing loop of AltIMU_test.py: the PID term and the motor PWM  *)
(* computed from the fused roll angle, in radians.                        *)

Pi == 3141593                     \* math.pi
KP == FMul(2500000, Pi)           \* 2.5 * pi
KI == 10000                       \* 0.01
KD == 100000                      \* 0.1

(* Roll angles altIMU.getIMUData() may report in data['fusionPose']:      *)
(* -3.0, 0.0 and 3.0 radians.                                             *)
FusionRolls == { -3000000, 0, 3000000 }

(* One iteration of the while loop in which altIMU.IMURead() is true      *)
(* (lines 50-97), the pose read being (fusionRollX, _, _).  summed is the *)
(* value of Ivalue in the sum of line 71.                                 *)
BalancerIteration(fusionRollX) ==
    \E Ivalue \in {balancer.Ivalue + FMul(KI, fusionRollX)} :          \* line 67
    \E Pvalue \in {FMul(KP, fusionRollX)} :                            \* line 66
    \E Dvalue \in {FMul(KD, fusionRollX - balancer.lastFusionRollX)} : \* line 68
    \E PID \in {Pvalue + Ivalue + Dvalue} :                            \* line 71
        /\ balancer' = [Ivalue |-> IF Ivalue > Pi THEN Pi              \* lines 77-80
                                   ELSE IF Ivalue < -Pi THEN -Pi ELSE Ivalue,
                        lastFusionRollX |-> fusionRollX,               \* line 69
                        fusionRollX |-> Some(fusionRollX), Pvalue |-> Some(Pvalue),
                        Dvalue |-> Some(Dvalue), summed |-> Some(Ivalue),
                        PID |-> Some(PID),
                        motorPWM |-> Some(FDiv(PID, Pi))]              \* line 74
        /\ UNCHANGED << stepper, call, kalTrace, fusionVars, deviceVars >>

NextBalancer == \E fusionRollX \in FusionRolls : BalancerIteration(fusionRollX)

SpecBalancer == Init /\ [][NextBalancer]_vars

---------------------------------------------------------------------------
(* The stepper script pbrStepper.py (pbrStepperSeq.py has the same         *)
(* MoveStep): MoveStep(count), one loop iteration per step of the model.   *)

MaxCount == 5            \* |count| of a MoveStep call

(* Order for stepping: the drive values of motor 1 and motor 2. *)
sequence == << <<1, 1>>, <<1, -1>>, <<-1, -1>>, <<-1, 1>> >>

(* sequence[i] of Python, i from -len(sequence) to len(sequence) - 1. *)
PyIndex(list, i) == IF i < 0 THEN list[Len(list) + i + 1] ELSE list[i + 1]

(* The counts the main loop passes to MoveStep. *)
Counts == (0 - MaxCount) .. MaxCount

(* MoveStep(count), lines 36-48: the direction from the sign, then the    *)
(* loop test; with count = 0 the call returns at once.                    *)
MoveStep(count) ==
    /\ stepper.pc = "main"
    /\ \E dir \in {IF count < 0 THEN -1 ELSE 1} :
       \E n \in {IF count < 0 THEN count * (-1) ELSE count} :
          stepper' = [stepper EXCEPT !.pc = IF n > 0 THEN "loop" ELSE "main",
                                     !.count = n, !.dir = dir,
                                     !.arg = Some(count),
                                     !.before = Some(stepper.step),
                                     !.iterations = 0,
                                     !.prevArg = stepper.arg,
                                     !.prevBefore = stepper.before]
    /\ UNCHANGED << balancer, call, kalTrace, fusionVars, deviceVars >>

(* The step index after lines 50-62. *)
NextStepIndex(step, dir) ==
    LET moved == IF step = -1 THEN 0 ELSE step + dir
    IN  IF moved < 0 THEN Len(sequence) - 1
        ELSE IF moved >= Len(sequence) THEN 0
        ELSE moved

(* A loop whose index does not wrap at the ends of the sequence. *)
MoveStepIterationUnwrapped ==
    /\ stepper.pc = "loop"
    /\ \E step \in {IF stepper.step = -1 THEN 0 ELSE stepper.step + stepper.dir} :
          stepper' = [stepper EXCEPT
                         !.step = step,
                         !.drive = IF step >= 0 /\ step < Len(sequence)
                                   THEN Some(PyIndex(sequence, step))
                                   ELSE stepper.drive,
                         !.count = stepper.count - 1,
                         !.iterations = stepper.iterations + 1,
                         !.moved = TRUE,
                         !.pc = IF stepper.count - 1 > 0 THEN "loop" ELSE "main"]
    /\ UNCHANGED << balancer, call, kalTrace, fusionVars, deviceVars >>

(* One iteration of the while loop, lines 48-70, and the loop test that   *)
(* follows it.  drive is what SetMotor1 and SetMotor2 were last given.    *)
MoveStepIteration ==
    /\ stepper.pc = "loop"
    /\ \E step \in {NextStepIndex(stepper.step, stepper.dir)} :
          stepper' = [stepper EXCEPT
                         !.step = step,
                         !.drive = IF step < Len(sequence)                \* line 65
                                   THEN Some(PyIndex(sequence, step))
                                   ELSE IF stepper.step = -1
                                   THEN Some(PyIndex(sequence, -1))      \* line 51
                                   ELSE stepper.drive,
                         !.count = stepper.count - 1,                    \* line 70
                         !.iterations = stepper.iterations + 1,
                         !.moved = TRUE,
                         !.pc = IF stepper.count - 1 > 0 THEN "loop" ELSE "main"]
    /\ UNCHANGED << balancer, call, kalTrace, fusionVars, deviceVars >>

NextStepper ==
    \/ \E count \in Counts : MoveStep(count)
    \/ MoveStepIteration

(* The loop body does not block: time.sleep(stepDelay) returns. *)
SpecStepper == Init /\ [][NextStepper]_vars /\ WF_vars(MoveStepIteration)

---------------------------------------------------------------------------
(* Properties.  kalTrace holds one entry per _calculateKalmanAngle run of  *)
(* the last getKalmanAngles call: `before`, `pred` and `after` are the     *)
(* covariance at entry, after the predict step and at return.             *)

(* C1: in the Kalman update step the four decrements use the P00 and P01   *)
(* the predict step left: with K0 = P00/S and K1 = P10/S, P00' = P00 -     *)
(* K0*P00, P01' = P01 - K0*P01, P10' = P10 - K1*P00, P11' = P11 - K1*P01,  *)
(* the P00 and P01 on the right being the values before the update.       *)
C1_DecrementsUsePreUpdateValues ==
    \A k \in 1..Len(kalTrace) :
        LET e == kalTrace[k]
            P == e.pred
        IN  e.kalS # 0 =>
              /\ e.kal0 = FDiv(P[1], e.kalS)
              /\ e.kal1 = FDiv(P[3], e.kalS)
              /\ e.after[e.axis] = << P[1] - FMul(e.kal0, P[1]),
                                     P[2] - FMul(e.kal0, P[2]),
                                     P[3] - FMul(e.kal1, P[1]),
                                     P[4] - FMul(e.kal1, P[2]) >>

(* C2: each axis has its own covariance matrix: a predict+update for one  *)
(* axis leaves the P00, P01, P10, P11 of the other two axes as they were. *)
C2_AxesHaveOwnCovariance ==
    \A k \in 1..Len(kalTrace) :
        LET e == kalTrace[k]
        IN  \A a \in Axes \ {e.axis} : e.after[a] = e.before[a]

(* C3: from angle 0, bias 0 and covariance {0,0,0,0}, without seeding, one *)
(* getKalmanAngles cycle with rate 10, deltaT 0.05 and tilt 0.6 leaves,    *)
(* for every requested axis, angle 0.5 + 0.1/21 (0.504762), bias 0,        *)
(* P00 = 0.0005*20/21 (0.000476), P01 = 0, P10 = 0 and P11 = 0.000015.     *)
C3_RegressionFixture ==
    ( /\ kalmanCalls = 1 /\ kalmanSeeded = 0
      /\ call.op = "getKalmanAngles" /\ call.deltaT = 50000
      /\ \A i \in Axes : ~IsNone(call.rates[i]) => call.rates[i] = Some(10000000)
      /\ \A i \in Axes : call.accel[i] = Some(600000) )
    => /\ call.st = "ok"
       /\ \A i \in Axes :
            ~IsNone(call.rates[i]) =>
              /\ kalmanAngles[i] = Some(504762)
              /\ call.v[i] = Some(504762)
              /\ kalmanBias[i] = 0
              /\ KalmanP(i) = <<476, 0, 0, 15>>

(* C4: the predict step of every cycle sets, for each present axis,       *)
(* angle' = angle + (r - bias)*dt, P00' = P00 + dt*(-P01 - P10) + Qangle*dt, *)
(* P01' = P01 - dt*P11, P10' = P10 - dt*P11, P11' = P11 + Qgyro*dt, every  *)
(* right-hand side on the values before the step; the update step then    *)
(* uses y = a - angle', S = P00' + Rangle, K0 = P00'/S, K1 = P10'/S and    *)
(* adds K0*y to the angle and K1*y to the bias.                           *)
C4_PredictThenUpdate ==
    \A k \in 1..Len(kalTrace) :
        LET e  == kalTrace[k]
            P  == e.before[e.axis]
            dt == e.deltaT
        IN  /\ e.angleIn = e.angleStart + FMul(e.rate - e.biasIn, dt)
            /\ e.pred[1] = P[1] + FMul(dt, -P[2] - P[3]) + FMul(Q_ANGLE, dt)
            /\ e.pred[2] = P[2] - FMul(dt, P[4])
            /\ e.pred[3] = P[3] - FMul(dt, P[4])
            /\ e.pred[4] = P[4] + FMul(Q_GYRO, dt)
            /\ e.kalY = e.accel - e.angleIn
            /\ e.kalS = e.pred[1] + R_ANGLE
            /\ e.kalS # 0 =>
                 /\ e.kal0 = FDiv(e.pred[1], e.kalS)
                 /\ e.kal1 = FDiv(e.pred[3], e.kalS)
                 /\ e.angleOut = e.angleIn + FMul(e.kal0, e.kalY)
                 /\ e.biasOut = e.biasIn + FMul(e.kal1, e.kalY)
            /\ (call.st = "ok" /\ \A j \in (k+1)..Len(kalTrace) : kalTrace[j].axis # e.axis)
                 => /\ kalmanAngles[e.axis] = Some(e.angleOut)
                    /\ kalmanBias[e.axis] = e.biasOut

(* A second getKalmanAngles call whose third run starts from a covariance *)
(* with all four entries nonzero and ends with a nonzero bias gain.       *)
C4_Witness ==
    /\ kalmanCalls = 2 /\ call.op = "getKalmanAngles" /\ call.st = "ok"
    /\ Len(kalTrace) = 3
    /\ \A n \in 1..4 : kalTrace[3].before[3][n] # 0
    /\ kalTrace[3].kal1 # 0 /\ kalTrace[3].rate # 0

(* The LSM6DS33 is enabled for both sensors with register auto-increment, *)
(* so that a reading fails only when the bus does.                        *)
SensorReady ==
    /\ accelerometer /\ gyroscope /\ ~IsNone(accelGyroSensor)
    /\ accelGyroSensor = Some(SensorEnabled(TRUE, TRUE, TRUE))

(* C5: a getKalmanAngles call with y not requested returns an absent y    *)
(* and leaves the stored Kalman angle, bias and covariance of the y axis  *)
(* as they were.                                                          *)
C5_AbsentYKalman ==
    [][ ( /\ call'.op = "getKalmanAngles" /\ ~call'.y /\ (call'.x \/ call'.z)
          /\ SensorReady /\ call'.st # "IOError" )
        => /\ call'.st = "ok"
           /\ IsNone(call'.v[2])
           /\ kalmanAngles'[2] = kalmanAngles[2]
           /\ kalmanBias'[2] = kalmanBias[2]
           /\ listObjs'[kalmanYP] = listObjs[kalmanYP] ]_vars

(* C6: in the complementary filter an axis whose rate or tilt is absent   *)
(* gives an absent output and keeps its stored complementary angle.       *)
C6_AbsentYComplementary ==
    [][ ( /\ call'.op = "getComplementaryAngles" /\ ~call'.y /\ (call'.x \/ call'.z)
          /\ SensorReady /\ call'.st # "IOError" )
        => /\ call'.st = "ok"
           /\ IsNone(call'.v[2])
           /\ complementaryAngles'[2] = complementaryAngles[2] ]_vars

(* C7: with initialization from the accelerometer configured, the very    *)
(* first complementary-filter call sets the stored angle of every axis to *)
(* the accelerometer tilt a and returns a.                                *)
C7_FirstComplementaryCallReturnsTilt ==
    [][ ( /\ call'.op = "getComplementaryAngles"
          /\ complementaryCalls = 0 /\ complementaryCalls' = 1
          /\ configured = "True" /\ initFiltersFromAccel = "True" )
        => /\ call'.st = "ok"
           /\ call'.v = call'.accel
           /\ complementaryAngles' = call'.accel ]_vars

(* C8: with initialization from the accelerometer configured, the first   *)
(* getKalmanAngles call seeds the Kalman angle from its accelerometer     *)
(* tilt whatever fusion calls came before it, and the first               *)
(* getComplementaryAngles call seeds the complementary angle whatever     *)
(* Kalman calls came before it.                                           *)
C8_FirstCallOfEachFilterSeeds ==
    [][ /\ ( /\ call'.op = "getKalmanAngles"
             /\ kalmanCalls = 0 /\ kalmanCalls' = 1 /\ configured = "True" )
           => /\ kalmanSeeded' = 1
              /\ \A k \in 1..Len(kalTrace') :
                    kalTrace'[k].angleStart = kalTrace'[k].accel
        /\ ( /\ call'.op = "getComplementaryAngles"
             /\ complementaryCalls = 0 /\ complementaryCalls' = 1
             /\ configured = "True" )
           => complementarySeeded' = 1 ]_vars

(* C9: seeding is one-shot: over any sequence of operations, repeated     *)
(* enable calls included, each filter's stored angle is overwritten with  *)
(* the accelerometer tilt at most once.                                   *)
C9_SeedingIsOneShot ==
    kalmanSeeded <= 1 /\ complementarySeeded <= 1

(* C10: with rate 0 on every axis, every getComplementaryAngles call      *)
(* succeeds and leaves angle' - a = alpha*(angle - a) on every axis, a    *)
(* being the accelerometer tilt.                                          *)
C10_ComplementaryConvergence ==
    [][ ( /\ call'.op = "getComplementaryAngles"
          /\ complementaryCalls' = complementaryCalls + 1
          /\ call'.rates = <<Some(0), Some(0), Some(0)>>
          /\ initFiltersFromAccel # "True" )
        => /\ call'.st = "ok"
           /\ \A i \in Axes :
                Val(complementaryAngles'[i]) - Val(call'.accel[i])
                  = FMul(C_FILTER_CONST,
                         Val(complementaryAngles[i]) - Val(call'.accel[i])) ]_vars

(* C11: the complementary filter and the Kalman filter fail (NotEnabled)  *)
(* when invoked while the accelerometer or the gyroscope is not enabled;  *)
(* they do not return a normal result.                                    *)
C11_FiltersFailWhenNotEnabled ==
    ( /\ call.op \in {"getComplementaryAngles", "getKalmanAngles"}
      /\ ~(accelerometer /\ gyroscope) )
    => call.st # "ok"

(* C12: trackGyroAngles before any calibration fails with the             *)
(* not-calibrated exception and leaves the accumulated angles unchanged;  *)
(* calibrateGyroAngles stores three angles, and from then on              *)
(* trackGyroAngles does not fail with that exception.                     *)
C12_TrackingNeedsCalibration ==
    [][ /\ call'.op = "trackGyroAngles" =>
             IF Len(gyrAngles) # 3
             THEN /\ call'.st = "Exception: Gyroscope must be calibrated before angle tracking!"
                  /\ gyrAngles' = gyrAngles
             ELSE call'.st # "Exception: Gyroscope must be calibrated before angle tracking!"
        /\ call'.op = "calibrateGyroAngles" => Len(gyrAngles') = 3
        /\ Len(gyrAngles) = 3 => Len(gyrAngles') = 3 ]_vars

(* A trackGyroAngles call on an instance that was never calibrated. *)
C12_Witness ==
    /\ call.op = "trackGyroAngles" /\ gyrAngles = <<>>
    /\ call.st = "Exception: Gyroscope must be calibrated before angle tracking!"

(* C13: calibrateGyroAngles(seed) replaces the accumulated angles by the  *)
(* seed, and a trackGyroAngles call that follows it with all axes present *)
(* returns and stores seed + rate*deltaT on every axis.                   *)
C13_CalibrationReset ==
    [][ /\ call'.op = "calibrateGyroAngles" => gyrAngles' = call'.seed
        /\ ( /\ call.op = "calibrateGyroAngles"
             /\ call'.op = "trackGyroAngles" /\ call'.st = "ok"
             /\ ~IsNone(call'.rates) )
           => \A i \in Axes :
                /\ call'.v[i] = Some(call.seed[i]
                                       + FMul(Val(call'.rates[i]), call'.deltaT))
                /\ gyrAngles'[i] = Val(call'.v[i]) ]_vars

(* The first integration after calibrateGyroAngles(1.0, 0.0, -2.0), with  *)
(* a nonzero rate on the z axis.                                          *)
C13_Witness ==
    /\ call.op = "trackGyroAngles" /\ call.st = "ok" /\ fusionCalls = 1
    /\ ~IsNone(call.rates) /\ Val(call.rates[3]) # 0 /\ call.deltaT # 0
    /\ gyrAngles[1] = 1000000 + FMul(Val(call.rates[1]), call.deltaT)
    /\ gyrAngles[3] = -2000000 + FMul(Val(call.rates[3]), call.deltaT)

(* Two successive trackGyroAngles calls with the same rates, the first    *)
(* having started from the accumulated angles (0, 0, 0).                  *)
TwoCallsFromZero ==
    /\ call.op = "trackGyroAngles" /\ call.st = "ok" /\ call.deltaT # 0
    /\ ~IsNone(call.rates)
    /\ \A i \in Axes : gyrAngles[i] = FMul(Val(call.rates[i]), call.deltaT)
    /\ call'.op = "trackGyroAngles" /\ call'.st = "ok" /\ call'.deltaT # 0
    /\ call'.rates = call.rates

C15_AbsentAxisTracking ==
    [][ ( /\ call'.op = "trackGyroAngles" /\ ~call'.y /\ (call'.x \/ call'.z)
          /\ Len(gyrAngles) = 3 /\ SensorReady /\ call'.st # "IOError" )
        => /\ call'.st = "ok"
           /\ gyrAngles'[2] = gyrAngles[2]
           /\ call'.v[2] = Some(gyrAngles[2])
           /\ \A i \in {1, 3} :
                /\ gyrAngles'[i] = gyrAngles[i]
                                     + FMul(Val(call'.rates[i]), call'.deltaT)
                /\ call'.v[i] = Some(gyrAngles'[i]) ]_vars

(* C16: the rate of each axis is the raw value times the gyro gain, and   *)
(* with the gain 0.00875 degrees/second per raw unit of the configured    *)
(* full scale, raw rate (100, 0, -50), deltaT 0.02 and seed (0, 0, 0),    *)
(* one trackGyroAngles call returns (0.0175, 0.0, -0.00875) degrees.      *)
C16_GyroScalingScenario ==
    [][ ( /\ gyrAngles = <<0, 0, 0>>
          /\ call'.op = "trackGyroAngles" /\ call'.st = "ok"
          /\ call'.raw = <<Some(100), Some(0), Some(-50)>>
          /\ call'.deltaT = 20000 )
        => /\ \A i \in Axes : call'.rates[i] = Some(Val(call'.raw[i]) * GYRO_GAIN)
           /\ call'.v = <<Some(17500), Some(0), Some(-8750)>> ]_vars

C18_AbsentTiltInput ==
    [][ ( /\ call'.op = "getAccelerometerAngles"
          /\ call'.x /\ ~call'.y /\ call'.z
          /\ SensorReady /\ call'.st # "IOError" )
        => /\ call'.st = "ok"
           /\ IsNone(call'.v[1]) /\ IsNone(call'.v[3])
           /\ ~IsNone(call'.v[2]) ]_vars

(* C19: an I/O error of the bus read during a fusion call is not          *)
(* propagated to the caller: the call handles the missing data and        *)
(* returns.                                                               *)
C19_BusFailureNotPropagated ==
    call.op \in {"trackGyroAngles", "getComplementaryAngles", "getKalmanAngles"}
    => call.st # "IOError"

(* C20: a fusion call (trackGyroAngles, getComplementaryAngles,           *)
(* getKalmanAngles) that fails changes nothing: the accumulated gyro      *)
(* angles, the complementary angles, the Kalman angles, biases and        *)
(* covariances and the seeding flag are the same after it as before it.   *)
C20_FailedCallChangesNothing ==
    [][ ( /\ call'.op \in {"trackGyroAngles", "getComplementaryAngles",
                           "getKalmanAngles"}
          /\ call'.st # "ok" )
        => UNCHANGED << gyrAngles, complementaryAngles, kalmanAngles, kalmanBias,
                        listObjs, initFiltersFromAccel >> ]_vars

FullyPopulated(vector) ==
    Len(vector) = 3 /\ \A i \in 1..3 : vector[i].t = "int"

(* C22: vectorCross and vectorDot fail, and give no result, whenever one  *)
(* of the two inputs is not a fully populated 3-element numeric vector:   *)
(* wrong length, a None component or a non-numeric component.             *)
C22_VectorInputsChecked ==
    ( /\ call.op \in {"vectorCross", "vectorDot"}
      /\ ~(FullyPopulated(call.a) /\ FullyPopulated(call.b)) )
    => call.st # "ok"

(* The dot product of a fully populated vector with itself, and its root  *)
(* where the dot product is a square.                                     *)
SquaredMagnitude(vector) ==
    vector[1].n * vector[1].n + vector[2].n * vector[2].n + vector[3].n * vector[3].n

Magnitude(vector) ==
    CHOOSE r \in 0..SquaredMagnitude(vector) : r * r = SquaredMagnitude(vector)

(* C23: normalizeVector called with one fully populated vector returns    *)
(* the vector divided by its magnitude sqrt(dot(v, v)) when the magnitude *)
(* is not zero, and fails when it is zero.                                *)
C23_NormalizeVector ==
    ( /\ call.op \in {"normalizeVector", "accelGyroSensor.normalizeVector"}
      /\ FullyPopulated(call.a) )
    => IF SquaredMagnitude(call.a) = 0
       THEN call.st # "ok"
       ELSE /\ call.st = "ok"
            /\ call.v = [i \in 1..3 |-> FDiv(FromInt(call.a[i].n),
                                             FromInt(Magnitude(call.a)))]

(* C24: AltIMU.enable completes without error for every combination of    *)
(* its arguments, and when it returns with the gyroscope requested the    *)
(* LSM6DS33 is enabled and the tracked gyro angles are calibrated to      *)
(* (0, 0, 0), so that the trackGyroAngles call that follows does not fail *)
(* for want of a calibration.                                             *)
C24_EnableCalibrates ==
    call.op = "enable" =>
        /\ call.st = "ok"
        /\ gyroscope =>
             /\ ~IsNone(accelGyroSensor)
             /\ Val(accelGyroSensor).ready /\ Val(accelGyroSensor).gyroEnabled
             /\ gyrAngles = <<0, 0, 0>>

(* C25: on an enabled sensor getGyroscopeRaw and getAccelerometerRaw      *)
(* return the same 3-tuple whether register auto-increment is enabled or  *)
(* not: the signed 16-bit combination of the low and the high byte for    *)
(* each requested axis, None for each axis not requested.                 *)
C25_AutoIncrementEquivalence ==
    ( /\ call.op \in {"accelGyroSensor.getGyroscopeRaw",
                      "accelGyroSensor.getAccelerometerRaw"}
      /\ Val(accelGyroSensor).accEnabled /\ Val(accelGyroSensor).gyroEnabled
      /\ call.st # "IOError" )
    => /\ call.st = "ok"
       /\ call.v = << IF call.x THEN Some(CombineLoHi(call.block[1], call.block[2]))
                      ELSE None,
                      IF call.y THEN Some(CombineLoHi(call.block[3], call.block[4]))
                      ELSE None,
                      IF call.z THEN Some(CombineLoHi(call.block[5], call.block[6]))
                      ELSE None >>

(* C26: starting from the zero covariance, after any sequence of Kalman   *)
(* cycles the off-diagonal entries of every axis's covariance matrix are  *)
(* equal: P01 = P10.                                                      *)
C26_CovarianceSymmetric ==
    \A a \in Axes : KalmanP(a)[2] = KalmanP(a)[3]

(* C27: after any sequence of Kalman cycles from the zero covariance the  *)
(* entry P00 is >= 0, so that S = P00 + Rangle is strictly positive and   *)
(* the gain K0 = P00/S lies in [0, 1).                                    *)
C27_GainWellDefined ==
    /\ \A a \in Axes : KalmanP(a)[1] >= 0
    /\ \A k \in 1..Len(kalTrace) :
          LET e == kalTrace[k]
          IN  /\ e.pred[1] >= 0
              /\ e.kalS > 0
              /\ 0 <= e.kal0 /\ e.kal0 < Scale

C29_IntegralLimited ==
    ~IsNone(balancer.summed) => Abs(Val(balancer.summed)) <= Pi

(* C30: MoveStep(count) terminates after exactly |count| loop iterations; *)
(* once a move has been made the step index is within                     *)
(* 0..len(sequence)-1; each iteration moves it by one position            *)
(* cyclically, forward for count > 0 and backward for count < 0, and      *)
(* drives the motors with sequence[step]; and MoveStep(n) followed by     *)
(* MoveStep(-n) returns the index to its value before the pair, once the  *)
(* first move has been made.                                              *)
C30_StepperSequencing ==
    /\ [](/\ stepper.pc = "loop" =>
                /\ stepper.count > 0
                /\ stepper.iterations + stepper.count = Abs(Val(stepper.arg))
          /\ stepper.pc = "main" /\ ~IsNone(stepper.arg) =>
                stepper.iterations = Abs(Val(stepper.arg))
          /\ IF stepper.moved
             THEN stepper.step \in 0 .. (Len(sequence) - 1)
             ELSE stepper.step = -1
          /\ (/\ stepper.pc = "main"
              /\ ~IsNone(stepper.arg) /\ ~IsNone(stepper.prevArg)
              /\ Val(stepper.arg) = 0 - Val(stepper.prevArg)
              /\ Val(stepper.prevBefore) # -1)
                => stepper.step = Val(stepper.prevBefore))
    /\ [][stepper'.iterations = stepper.iterations + 1 =>
             /\ stepper.moved =>
                  stepper'.step = (stepper.step + stepper.dir) % Len(sequence)
             /\ stepper.dir = (IF Val(stepper.arg) > 0 THEN 1 ELSE -1)
             /\ stepper'.drive = Some(sequence[stepper'.step + 1])]_vars
    /\ (stepper.pc = "loop" ~> stepper.pc = "main")

(* A MoveStep(-n) has returned after a MoveStep(n), n # 0, that began     *)
(* with the index at the end of the sequence, so that both calls wrapped. *)
C30_Witness ==
    /\ stepper.pc = "main"
    /\ stepper.prevArg = Some(MaxCount) /\ stepper.arg = Some(0 - MaxCount)
    /\ stepper.prevBefore = Some(Len(sequence) - 1)
    /\ stepper.iterations = MaxCount

====
